---- MODULE Spec2Model ----
(***************************************************************************)
(* A model of EmailNator.py: the EmailNatorClient, its error_handler        *)
(* retry decorator, the session token, and the mailbox operations.          *)
(* Text is modelled as sequences of one-character strings, so that split,   *)
(* substring tests and URL-decoding are computed as the code computes them. *)
(***************************************************************************)
EXTENDS Integers, Sequences, FiniteSets

VARIABLES
    xsrf_token,   \* self.xsrf_token: None or the decoded token text
    cookies,      \* the XSRF-TOKEN entry of self.session.cookies (NoCookie if none)
    stack,        \* the active error_handler wrappers of _make_request, outermost first
    pc,           \* which function of the client is waiting for _make_request
    outer,        \* the caller-visible operation in progress, or the last one that ended
    loc,          \* the locals of the caller-visible operation
    ret,          \* what the outermost _make_request last returned to pc (Pending during the call)
    result,       \* what the last caller-visible operation returned (or that it raised)
    done,         \* history: the last _make_request call that ended
    okJar         \* history: the cookie jar entry at the most recent successful response (NeverOk before)

vars == <<xsrf_token, cookies, stack, pc, outer, loc, ret, result, done, okJar>>

-----------------------------------------------------------------------------
(* Bounds of the model *)

\* Python's recursion limit, counted in nested _make_request wrappers: the
\* _initialize_session begun by the wrapper at this depth fails with a
\* RecursionError raised (and caught) inside its own _make_request
RecursionLimit == 2
\* the same limit where one generate_email call is followed on its own, to
\* see an _initialize_session that itself re-initializes
DeepRecursionLimit == 3
\* longest local part of the addresses given to _is_premium_email
MaxLocalLen == 4
\* largest num given to _is_premium_email / generate_premium_email
MaxNum == 2
\* largest max_attempts given to generate_premium_email
MaxAttempts == 2
\* longest messageData array the server returns
MaxMsgs == 2

(* Program constants *)

\* @error_handler(max_retries=3)
MAX_RETRIES == 3
\* generate_premium_email(max_attempts=20, num=2), as example_usage calls it
DefaultMaxAttempts == 20
DefaultPremiumNum == 2

-----------------------------------------------------------------------------
(* Text *)

None == <<"None">>
NoCookie == <<"NoCookie">>
NoSetCookie == <<"NoSetCookie">>
NeverOk == <<"NeverOk">>
EmptyStr == <<>>

Min(a, b) == IF a < b THEN a ELSE b

\* needle in hay (Python's substring test)
Contains(needle, hay) ==
    \E i \in 1..(Len(hay) - Len(needle) + 1) :
        SubSeq(hay, i, i + Len(needle) - 1) = needle

DigitChar(d) == <<"0","1","2","3","4","5","6","7","8","9">>[d + 1]

RECURSIVE IntToStr(_)
\* str(n) for n >= 0
IntToStr(n) == IF n < 10 THEN <<DigitChar(n)>>
               ELSE IntToStr(n \div 10) \o <<DigitChar(n % 10)>>

RECURSIVE SplitFrom(_, _, _)
\* s.split(sep): cur is the piece being read
SplitFrom(s, sep, cur) ==
    IF s = <<>> THEN <<cur>>
    ELSE IF Head(s) = sep THEN <<cur>> \o SplitFrom(Tail(s), sep, <<>>)
    ELSE SplitFrom(Tail(s), sep, Append(cur, Head(s)))

Split(s, sep) == SplitFrom(s, sep, <<>>)

RECURSIVE Flatten(_)
Flatten(ss) == IF ss = <<>> THEN <<>> ELSE Head(ss) \o Flatten(Tail(ss))

\* the %XX escapes the model's cookie values use
HexPairs == { <<"3","D">>, <<"2","B">>, <<"2","F">> }
HexChar(p) == IF p = <<"3","D">> THEN "=" ELSE IF p = <<"2","B">> THEN "+" ELSE "/"

RECURSIVE unquote(_)
\* urllib.parse.unquote: each %XX becomes its character, anything else is kept
unquote(s) ==
    IF s = <<>> THEN <<>>
    ELSE IF Head(s) = "%" /\ Len(s) >= 3 /\ SubSeq(s, 2, 3) \in HexPairs
         THEN <<HexChar(SubSeq(s, 2, 3))>> \o unquote(SubSeq(s, 4, Len(s)))
         ELSE <<Head(s)>> \o unquote(Tail(s))

-----------------------------------------------------------------------------
(* _is_premium_email *)

is_premium_email_strict(email, num) ==
    LET parts_by_dot == Split(email, ".")
        parts_by_plus == [i \in 1..Len(parts_by_dot) |-> Split(parts_by_dot[i], "+")]
        all_parts == Flatten(parts_by_plus)
    IN  Len(all_parts) < num + 1

is_premium_email(email, num) ==
    LET parts_by_dot == Split(email, ".")
        parts_by_plus == [i \in 1..Len(parts_by_dot) |-> Split(parts_by_dot[i], "+")]
        all_parts == Flatten(parts_by_plus)
    IN  Len(all_parts) <= num + 1

-----------------------------------------------------------------------------
(* The service *)

base_url == <<"h","t","t","p","s",":","/","/","w","w","w",".","e","m","a","i","l","n","a","t","o","r",".","c","o","m">>
GenerateEmailPath == <<"/","g","e","n","e","r","a","t","e","-","e","m","a","i","l">>
MessageListPath == <<"/","m","e","s","s","a","g","e","-","l","i","s","t">>

Url(u) == IF u = "root" THEN base_url
          ELSE IF u = "generate-email" THEN base_url \o GenerateEmailPath
          ELSE base_url \o MessageListPath

GmailDomain == <<"@","g","m","a","i","l",".","c","o","m">>

RECURSIVE SeqsUpTo(_, _)
\* the sequences over S of length 0..n
SeqsUpTo(S, n) ==
    IF n = 0 THEN { <<>> }
    ELSE LET shorter == SeqsUpTo(S, n - 1)
         IN  shorter \cup { Append(s, x) : s \in { t \in shorter : Len(t) = n - 1 }, x \in S }

\* the two addresses of the examples, and every short local part over a . +
ExampleAddresses ==
    { <<"a",".","b","+","c">> \o GmailDomain, <<"a",".","b",".","c","+","d">> \o GmailDomain }
GoogleMailDomain == <<"@","g","o","o","g","l","e","m","a","i","l",".","c","o","m">>
Addresses ==
    ExampleAddresses \cup
    { l \o d : l \in SeqsUpTo({"a", ".", "+"}, MaxLocalLen) \ { <<>> },
               d \in { GmailDomain, GoogleMailDomain } }

\* the addresses the service hands out in the model
GenAddresses ==
    { <<"a","b">> \o GmailDomain,
      <<"a",".","b">> \o GmailDomain,
      <<"a",".","b","+","c">> \o GmailDomain,
      <<"a",".","b",".","c","+","d">> \o GmailDomain }

\* the Set-Cookie values of XSRF-TOKEN (URL-encoded), or no such cookie
SetCookies == { NoSetCookie, <<"t","%","3","D">>, <<"u">> }

\* the Set-Cookie values of error responses
ErrorSetCookies == { NoSetCookie, <<"u">> }

\* reason phrases of error responses
Reasons == { <<"E","r","r","o","r">>, <<"E","r","r","o","r"," ","4","1","9">> }
ErrorStatuses == { 419, 500 }

\* the divider '<hr /></div></div>' of the message page
Marker == <<"<","h","r"," ","/",">","<","/","d","i","v",">","<","/","d","i","v",">">>

\* raw page texts: without the divider, with "Hello" after it, with a second
\* divider in the message, and with nothing after it
Contents ==
    { <<"h">>,
      <<"h">> \o Marker \o <<" ","H","e","l","l","o","\n">>,
      <<"h">> \o Marker \o <<"a">> \o Marker \o <<"b"," ">>,
      <<"h">> \o Marker }

NoHtml == [header |-> FALSE, labels |-> <<>>, content |-> <<>>]
NoBody == [kind |-> "none", hasEmail |-> FALSE, email |-> <<>>,
           hasData |-> FALSE, messageData |-> <<>>, html |-> NoHtml]

PageBody == [NoBody EXCEPT !.kind = "html"]

\* bodies of POST /generate-email: {"email": [...]}, {} or not JSON
GenBodies ==
    { [NoBody EXCEPT !.kind = "json"], [NoBody EXCEPT !.kind = "text"] }
    \cup { [NoBody EXCEPT !.kind = "json", !.hasEmail = TRUE, !.email = e] :
             e \in { <<>> } \cup { <<a>> : a \in GenAddresses }
                   \cup { <<a, <<"z">> \o GmailDomain>> : a \in GenAddresses } }

KeyAbsent == "<absent>"
Froms == { <<"N"," ","<","t","@","q",".","c",">">>, <<"A","D">> }
Times == { "Just Now", "5 min ago", KeyAbsent }
\* the messageData arrays of length n: the server numbers its entries
MsgLists(n) ==
    { [i \in 1..n |-> [messageID |-> i, from |-> ft[i][1], subject |-> "s", time |-> ft[i][2]]] :
        ft \in [1..n -> Froms \X Times] }

\* bodies of POST /message-list {email}: {"messageData": [...]}, {} or not JSON
ListBodies ==
    { [NoBody EXCEPT !.kind = "json"], [NoBody EXCEPT !.kind = "text"] }
    \cup { [NoBody EXCEPT !.kind = "json", !.hasData = TRUE, !.messageData = m] :
             m \in UNION { MsgLists(n) : n \in 0..MaxMsgs } }

\* bodies of POST /message-list {email, messageID}: the message's HTML
HtmlDocs ==
    { [header |-> h, labels |-> l, content |-> c] :
        h \in BOOLEAN,
        l \in { <<>>, << <<" ","f"," ">>, <<"s">> >>, << <<" ","f"," ">>, <<"s">>, <<"n">> >> },
        c \in Contents }
ContentBodies == { [NoBody EXCEPT !.kind = "html", !.html = d] : d \in HtmlDocs }

Bodies(f) ==
    IF f.url = "root" THEN { PageBody }
    ELSE IF f.url = "generate-email" THEN GenBodies
    ELSE IF f.data = "email" THEN ListBodies
    ELSE ContentBodies

-----------------------------------------------------------------------------
(* Responses and what _make_request returns *)

NoResponse == [class |-> "none", status |-> 0, reason |-> <<>>,
               set_cookie |-> NoSetCookie, body |-> NoBody]
Raised == [NoResponse EXCEPT !.class = "raise"]

OkResponses(f) ==
    { [class |-> "ok", status |-> 200, reason |-> <<"O","K">>, set_cookie |-> c, body |-> b] :
        c \in SetCookies, b \in Bodies(f) }
ErrorResponses ==
    { [class |-> "http", status |-> s, reason |-> r, set_cookie |-> c, body |-> NoBody] :
        s \in ErrorStatuses, r \in Reasons, c \in ErrorSetCookies }

\* str(e) of the HTTPError raise_for_status raises
HTTPErrorStr(resp, url) ==
    IntToStr(resp.status)
    \o (IF resp.status < 500 THEN <<" ","C","l","i","e","n","t"," ","E","r","r","o","r",":"," ">>
                             ELSE <<" ","S","e","r","v","e","r"," ","E","r","r","o","r",":"," ">>)
    \o resp.reason \o <<" ","f","o","r"," ","u","r","l",":"," ">> \o url

\* the session's jar after a response: a Set-Cookie replaces the entry
JarAfter(jar, resp) == IF resp.set_cookie = NoSetCookie THEN jar ELSE resp.set_cookie

\* cookies.get('XSRF-TOKEN', '')
CookieGet(jar) == IF jar = NoCookie THEN EmptyStr ELSE jar

update_xsrf_token_raw(jar) == CookieGet(jar)

\* self.xsrf_token = unquote(cookies.get('XSRF-TOKEN', ''))
update_xsrf_token(jar) == unquote(CookieGet(jar))

-----------------------------------------------------------------------------
(* error_handler and _make_request *)

Pending == [NoResponse EXCEPT !.class = "pending"]

\* no attempt made yet, so no X-Xsrf-Token header sent yet
Unsent == <<"Unsent">>

\* one active wrapper: retry_count is the loop variable, at is "try" before
\* func is called and "handler" while the 419 branch runs _initialize_session;
\* sent, prev and inits are history: the attempts made, the status of the
\* attempt before the next one, and the _initialize_session runs begun
\* while the call is active (counted up to MAX_RETRIES + 1); hdr is the
\* X-Xsrf-Token header of the last attempt, reinit how the
\* _initialize_session called after the last attempt ended ("ok": its
\* _make_request returned a response, "failed": it returned None or raised)
Frame(method, url, data) ==
    [method |-> method, url |-> url, data |-> data, retry_count |-> 0,
     at |-> "try", sent |-> 0, prev |-> 0, inits |-> 0, hdr |-> Unsent, reinit |-> "none"]

NoDone == [method |-> "none", url |-> "none", data |-> "none", depth |-> 0, sent |-> 0,
           prev |-> 0, last |-> 0, inits |-> 0, hdr |-> Unsent, served |-> NoResponse,
           result |-> NoResponse]

Top == stack[Len(stack)]

\* the except clause an HTTPError is handled by: "retry" is the 419 branch
Classify(resp, url) ==
    IF Contains(<<"4","1","9">>, HTTPErrorStr(resp, url)) THEN "retry" ELSE "break"

\* "X-Xsrf-Token": self.xsrf_token, read anew by each attempt of the wrapper f
HeaderTokenCached(f, tok) == IF f.sent = 0 THEN tok ELSE f.hdr

HeaderToken(f, tok) == tok

\* the wrapper's frame after one more attempt, sent with the current token
Attempt(f) == [f EXCEPT !.sent = @ + 1, !.hdr = HeaderToken(f, xsrf_token), !.reinit = "none"]

\* the token after func raised something that is no HTTPError
TokenAfterExceptionCleared(tok) == None

TokenAfterException(tok) == tok

\* the token after an attempt that raised: raise_for_status comes before the update
TokenAfterErrorUpdated(tok, jar) == update_xsrf_token(jar)

TokenAfterError(tok, jar) == tok

\* what the wrapper hands to its caller when func raised a non-HTTP exception
AfterExceptionReraise == Raised

AfterException == NoResponse

\* what the wrapper hands to its caller when func returned resp
AfterSuccess(resp) == resp

\* range(max_retries) has another value after retry_count
MoreRetries(retry_count) == retry_count + 1 < MAX_RETRIES

CountInit(s) ==
    [i \in 1..Len(s) |-> [s[i] EXCEPT !.inits = Min(s[i].inits + 1, MAX_RETRIES + 1)]]

\* the wrapper f returns value to its caller; _initialize_session drops what
\* a nested call returns (and would catch what it raised)
Return(f, served, value) ==
    /\ stack' = [i \in 1..(Len(stack) - 1) |->
                    IF i = Len(stack) - 1
                    THEN [stack[i] EXCEPT !.reinit = IF value.class = "ok" THEN "ok" ELSE "failed"]
                    ELSE stack[i]]
    /\ ret' = IF Len(stack) = 1 THEN value ELSE ret
    /\ done' = [method |-> f.method, url |-> f.url, data |-> f.data, depth |-> Len(stack),
                sent |-> f.sent, prev |-> f.prev, last |-> served.status,
                inits |-> f.inits, hdr |-> f.hdr, served |-> served, result |-> value]

\* func returns: raise_for_status passes, the token is refreshed from the jar
request_ok ==
    /\ stack # <<>> /\ Top.at = "try"
    /\ \E resp \in OkResponses(Top) :
        /\ cookies' = JarAfter(cookies, resp)
        /\ xsrf_token' = update_xsrf_token(cookies')
        /\ okJar' = cookies'
        /\ Return(Attempt(Top), resp, AfterSuccess(resp))
    /\ UNCHANGED <<pc, outer, loc, result>>

\* func raises an HTTPError with "419" in its text: _initialize_session is called
request_419_within(limit) ==
    /\ stack # <<>> /\ Top.at = "try"
    /\ \E resp \in ErrorResponses :
        /\ Classify(resp, Url(Top.url)) = "retry"
        /\ cookies' = JarAfter(cookies, resp)
        /\ xsrf_token' = TokenAfterError(xsrf_token, cookies')
        /\ LET f == [Attempt(Top) EXCEPT !.prev = resp.status, !.at = "handler"]
               s == CountInit([stack EXCEPT ![Len(stack)] = f])
           IN  stack' = IF Len(stack) < limit
                        THEN Append(s, Frame("get", "root", "none"))
                        ELSE [s EXCEPT ![Len(stack)].reinit = "failed"]
    /\ done' = NoDone
    /\ UNCHANGED <<pc, outer, loc, ret, result, okJar>>

request_419 == request_419_within(RecursionLimit)

request_419_deep == request_419_within(DeepRecursionLimit)

\* func raises any other HTTPError: break, return None
request_http_error ==
    /\ stack # <<>> /\ Top.at = "try"
    /\ \E resp \in ErrorResponses :
        /\ Classify(resp, Url(Top.url)) = "break"
        /\ cookies' = JarAfter(cookies, resp)
        /\ xsrf_token' = TokenAfterError(xsrf_token, cookies')
        /\ Return(Attempt(Top), resp, NoResponse)
    /\ UNCHANGED <<pc, outer, loc, result, okJar>>

\* func raises something that is no HTTPError (no response arrived): break, return None
request_exception ==
    /\ stack # <<>> /\ Top.at = "try"
    /\ Return(Attempt(Top), NoResponse, AfterException)
    /\ xsrf_token' = TokenAfterException(xsrf_token)
    /\ UNCHANGED <<cookies, pc, outer, loc, result, okJar>>

\* _initialize_session has returned into the 419 branch: next retry_count, or return None
handler_return ==
    /\ stack # <<>> /\ Top.at = "handler"
    /\ IF MoreRetries(Top.retry_count)
       THEN /\ stack' = [stack EXCEPT ![Len(stack)] =
                            [Top EXCEPT !.retry_count = @ + 1, !.at = "try"]]
            /\ done' = NoDone
            /\ UNCHANGED ret
       ELSE Return(Top, [NoResponse EXCEPT !.status = Top.prev], NoResponse)
    /\ UNCHANGED <<xsrf_token, cookies, pc, outer, loc, result, okJar>>

-----------------------------------------------------------------------------
(* Values the caller-visible operations return *)

NoValue == [t |-> "unset", str |-> <<>>, b |-> FALSE, list |-> <<>>, d |-> <<>>]
NoneV == [NoValue EXCEPT !.t = "None"]
RaiseV == [NoValue EXCEPT !.t = "raise"]
StrV(s) == [NoValue EXCEPT !.t = "str", !.str = s]
BoolV(b) == [NoValue EXCEPT !.t = "bool", !.b = b]
ListV(l) == [NoValue EXCEPT !.t = "list", !.list = l]
\* a dict: <<>> is {}, <<m>> is the record m
DictV(d) == [NoValue EXCEPT !.t = "dict", !.d = d]

\* max_attempts, num, attempt, callback: the arguments and loop variable;
\* found: the message get_new_message is about to return;
\* history: calls counts the generate_email calls of generate_premium_email,
\* passes those that returned an address whose local part has at most num
\* segments, cb_args lists the arguments the callback was called with,
\* listed is the list get_message_list returned to get_new_message
Loc0 == [max_attempts |-> 0, num |-> 0, attempt |-> 0, callback |-> "None",
         found |-> <<>>, calls |-> 0, passes |-> 0, cb_args |-> <<>>, listed |-> <<>>]

-----------------------------------------------------------------------------
(* __init__ *)

\* EmailNatorClient(): xsrf_token = None, then _initialize_session
Construct ==
    /\ pc = "start"
    /\ pc' = "init" /\ outer' = "__init__"
    /\ stack' = <<Frame("get", "root", "none")>>
    /\ done' = NoDone
    /\ UNCHANGED <<xsrf_token, cookies, loc, ret, result, okJar>>

\* _initialize_session logs and returns; __init__ returns
ConstructReturn ==
    /\ pc = "init" /\ stack = <<>> /\ ret # Pending
    /\ pc' = "idle"
    /\ done' = NoDone
    /\ UNCHANGED <<xsrf_token, cookies, stack, outer, loc, ret, result, okJar>>

-----------------------------------------------------------------------------
(* generate_email, generate_premium_email, _is_premium_email *)

\* response.json().get("email", [None])[0] if response else None
generate_email_value(r) ==
    IF r.class = "raise" THEN RaiseV
    ELSE IF r.class # "ok" THEN NoneV
    ELSE IF r.body.kind # "json" THEN RaiseV
    ELSE IF ~r.body.hasEmail THEN NoneV
    ELSE IF r.body.email = <<>> THEN RaiseV
    ELSE StrV(r.body.email[1])

CallGenerateEmail ==
    /\ pc = "idle"
    /\ pc' = "generate_email" /\ outer' = "generate_email"
    /\ stack' = <<Frame("post", "generate-email", "types")>>
    /\ loc' = Loc0 /\ result' = NoValue /\ done' = NoDone /\ ret' = Pending
    /\ UNCHANGED <<xsrf_token, cookies, okJar>>

generate_email_return ==
    /\ pc = "generate_email" /\ outer = "generate_email" /\ stack = <<>> /\ ret # Pending
    /\ result' = generate_email_value(ret)
    /\ pc' = "idle"
    /\ UNCHANGED ret
    /\ done' = NoDone
    /\ UNCHANGED <<xsrf_token, cookies, stack, outer, loc, okJar>>

\* the text of email before its first @
LocalPart(email) ==
    LET at == CHOOSE i \in 1..Len(email) : email[i] = "@" /\ \A j \in 1..(i - 1) : email[j] # "@"
    IN  SubSeq(email, 1, at - 1)

\* the pieces of text between the . and + characters of s, counted
Segments(s) == Cardinality({ i \in 1..Len(s) : s[i] \in {".", "+"} }) + 1

\* Python's truth value of generate_email's result
Truthy(v) == v.t = "str" /\ v.str # <<>>

\* range(1, max_attempts + 1) has another value after attempt
MoreAttempts(attempt, max_attempts) == attempt < max_attempts

\* the test that ends the loop of generate_premium_email
Accepts(email, num) == Truthy(email) /\ is_premium_email(email.str, num)

\* generate_premium_email(max_attempts, num) up to its first generate_email;
\* with an empty range it returns None at once
generate_premium_email_call(max_attempts, num) ==
    /\ loc' = [Loc0 EXCEPT !.max_attempts = max_attempts, !.num = num, !.attempt = 1,
                           !.calls = IF max_attempts >= 1 THEN 1 ELSE 0]
    /\ IF max_attempts >= 1
       THEN /\ pc' = "generate_email"
            /\ stack' = <<Frame("post", "generate-email", "types")>>
            /\ result' = NoValue
       ELSE /\ result' = NoneV
            /\ pc' = "idle"
            /\ UNCHANGED stack
    /\ outer' = "generate_premium_email"
    /\ done' = NoDone /\ ret' = Pending
    /\ UNCHANGED <<xsrf_token, cookies, okJar>>

CallGeneratePremiumEmail ==
    /\ pc = "idle"
    /\ \E max_attempts \in 0..MaxAttempts, num \in 0..MaxNum :
        generate_premium_email_call(max_attempts, num)

\* generate_email has returned into the loop of generate_premium_email
generate_premium_email_step ==
    /\ pc = "generate_email" /\ outer = "generate_premium_email"
    /\ stack = <<>> /\ ret # Pending
    /\ LET email == generate_email_value(ret)
           l == [loc EXCEPT !.passes =
                    IF email.t = "str" /\ Segments(LocalPart(email.str)) <= loc.num
                    THEN @ + 1 ELSE @]
       IN  IF email.t = "raise"
           THEN /\ result' = RaiseV /\ pc' = "idle" /\ loc' = l /\ UNCHANGED <<stack, ret>>
           ELSE IF Accepts(email, loc.num)
           THEN /\ result' = email /\ pc' = "idle" /\ loc' = l /\ UNCHANGED <<stack, ret>>
           ELSE IF MoreAttempts(loc.attempt, loc.max_attempts)
           THEN /\ loc' = [l EXCEPT !.attempt = @ + 1, !.calls = @ + 1]
                /\ stack' = <<Frame("post", "generate-email", "types")>>
                /\ ret' = Pending
                /\ UNCHANGED <<pc, result>>
           ELSE /\ result' = NoneV /\ pc' = "idle" /\ loc' = l /\ UNCHANGED <<stack, ret>>
    /\ done' = NoDone
    /\ UNCHANGED <<xsrf_token, cookies, outer, okJar>>

-----------------------------------------------------------------------------
(* get_message_list, get_new_message, get_email_content *)

HasAtAny(msg) == TRUE

\* "@" in msg["from"]
HasAt(msg) == Contains(<<"@">>, msg.from)

\* [msg for msg in response.json().get("messageData", []) if "@" in msg["from"]]
\* if response else []
get_message_list_value(r) ==
    IF r.class = "raise" THEN RaiseV
    ELSE IF r.class # "ok" THEN ListV(<<>>)
    ELSE IF r.body.kind # "json" THEN RaiseV
    ELSE IF ~r.body.hasData THEN ListV(<<>>)
    ELSE ListV(SelectSeq(r.body.messageData, HasAt))

\* msg.get('time', '')
GetTime(msg) == IF msg.time = KeyAbsent THEN "" ELSE msg.time

IsNew(msg) == GetTime(msg) = "Just Now"

RECURSIVE FirstNewLast(_)
FirstNewLast(list) ==
    IF list = <<>> THEN <<>>
    ELSE IF IsNew(list[Len(list)]) THEN <<list[Len(list)]>>
    ELSE FirstNewLast(SubSeq(list, 1, Len(list) - 1))

RECURSIVE FirstNew(_)
\* the message the for loop of get_new_message stops at: <<msg>>, or <<>>
FirstNew(list) ==
    IF list = <<>> THEN <<>>
    ELSE IF IsNew(Head(list)) THEN <<Head(list)>>
    ELSE FirstNew(Tail(list))

IsSpace(c) == c \in {" ", "\n", "\t"}

RECURSIVE Strip(_)
\* str.strip()
Strip(s) ==
    IF s = <<>> THEN <<>>
    ELSE IF IsSpace(Head(s)) THEN Strip(Tail(s))
    ELSE IF IsSpace(s[Len(s)]) THEN Strip(SubSeq(s, 1, Len(s) - 1))
    ELSE s

\* the start of the first occurrence of needle in hay
FindFirst(needle, hay) ==
    CHOOSE i \in 1..(Len(hay) - Len(needle) + 1) :
        /\ SubSeq(hay, i, i + Len(needle) - 1) = needle
        /\ \A j \in 1..(i - 1) : SubSeq(hay, j, j + Len(needle) - 1) # needle

\* the start of the last occurrence of needle in hay
FindLast(needle, hay) ==
    CHOOSE i \in 1..(Len(hay) - Len(needle) + 1) :
        /\ SubSeq(hay, i, i + Len(needle) - 1) = needle
        /\ \A j \in (i + 1)..(Len(hay) - Len(needle) + 1) :
              SubSeq(hay, j, j + Len(needle) - 1) # needle

SplitOnceLast(s, sep) ==
    IF ~Contains(sep, s) THEN <<s>>
    ELSE LET i == FindLast(sep, s)
         IN  <<SubSeq(s, 1, i - 1), SubSeq(s, i + Len(sep), Len(s))>>

\* s.split(sep, 1)
SplitOnce(s, sep) ==
    IF ~Contains(sep, s) THEN <<s>>
    ELSE LET i == FindFirst(sep, s)
         IN  <<SubSeq(s, 1, i - 1), SubSeq(s, i + Len(sep), Len(s))>>

\* content.split('<hr /></div></div>', 1)[-1].strip() if '<hr /></div></div>' in content else ''
parse_body(content) ==
    IF Contains(Marker, content)
    THEN LET pieces == SplitOnce(content, Marker) IN Strip(pieces[Len(pieces)])
    ELSE <<>>

\* _parse_email_content: header is soup.find(id="subject-header"), labels the
\* text after each <b> of it; a missing header or label raises
parse_email_content(doc) ==
    IF ~doc.header \/ Len(doc.labels) < 3 THEN RaiseV
    ELSE DictV(<<[from |-> Strip(doc.labels[1]), subject |-> Strip(doc.labels[2]),
                  time |-> Strip(doc.labels[3]),
                  body |-> parse_body(doc.content)]>>)

\* self._parse_email_content(response.text) if response else {}
get_email_content_value(r) ==
    IF r.class = "raise" THEN RaiseV
    ELSE IF r.class # "ok" THEN DictV(<<>>)
    ELSE parse_email_content(r.body.html)

CallGetMessageList ==
    /\ pc = "idle"
    /\ pc' = "get_message_list" /\ outer' = "get_message_list"
    /\ stack' = <<Frame("post", "message-list", "email")>>
    /\ loc' = Loc0 /\ result' = NoValue /\ done' = NoDone /\ ret' = Pending
    /\ UNCHANGED <<xsrf_token, cookies, okJar>>

get_message_list_return ==
    /\ pc = "get_message_list" /\ outer = "get_message_list" /\ stack = <<>> /\ ret # Pending
    /\ result' = get_message_list_value(ret)
    /\ pc' = "idle"
    /\ UNCHANGED ret
    /\ done' = NoDone
    /\ UNCHANGED <<xsrf_token, cookies, stack, outer, loc, okJar>>

CallGetEmailContent ==
    /\ pc = "idle"
    /\ pc' = "get_email_content" /\ outer' = "get_email_content"
    /\ stack' = <<Frame("post", "message-list", "email+id")>>
    /\ loc' = Loc0 /\ result' = NoValue /\ done' = NoDone /\ ret' = Pending
    /\ UNCHANGED <<xsrf_token, cookies, okJar>>

get_email_content_return ==
    /\ pc = "get_email_content" /\ outer = "get_email_content" /\ stack = <<>> /\ ret # Pending
    /\ result' = get_email_content_value(ret)
    /\ pc' = "idle"
    /\ UNCHANGED ret
    /\ done' = NoDone
    /\ UNCHANGED <<xsrf_token, cookies, stack, outer, loc, okJar>>

\* the callbacks of the model: none, or msg_callback of example_usage
Callbacks == { "None", "msg_callback" }

\* get_new_message(email, callback) up to its get_message_list
get_new_message_call(callback) ==
    /\ loc' = [Loc0 EXCEPT !.callback = callback]
    /\ pc' = "get_message_list" /\ outer' = "get_new_message"
    /\ stack' = <<Frame("post", "message-list", "email")>>
    /\ result' = NoValue /\ done' = NoDone /\ ret' = Pending
    /\ UNCHANGED <<xsrf_token, cookies, okJar>>

CallGetNewMessage ==
    /\ pc = "idle"
    /\ \E callback \in Callbacks : get_new_message_call(callback)

CallbackArgsFoundOnly(callback, msg) ==
    IF callback = "None" \/ msg = <<>> THEN <<>> ELSE <<msg>>

\* the calls of callback one get_new_message makes, msg being what the for
\* loop stopped at (<<>> for {}): callback(msg) or callback({}), if not None
CallbackArgs(callback, msg) == IF callback = "None" THEN <<>> ELSE <<msg>>

\* get_message_list has returned into get_new_message: the for loop, and the
\* callback up to the get_email_content call of msg_callback
get_new_message_scan ==
    /\ pc = "get_message_list" /\ outer = "get_new_message"
    /\ stack = <<>> /\ ret # Pending
    /\ LET message_list == get_message_list_value(ret)
           msg == FirstNew(message_list.list)
           l == [loc EXCEPT !.listed = message_list.list]
       IN  IF message_list.t = "raise"
           THEN /\ result' = RaiseV /\ pc' = "idle" /\ UNCHANGED <<stack, loc, ret>>
           ELSE IF loc.callback = "None"
           THEN /\ result' = DictV(msg) /\ pc' = "idle" /\ loc' = l /\ UNCHANGED <<stack, ret>>
           ELSE IF msg = <<>>
           THEN /\ result' = DictV(msg) /\ pc' = "idle" /\ UNCHANGED <<stack, ret>>
                /\ loc' = [l EXCEPT !.cb_args = @ \o CallbackArgs(loc.callback, msg)]
           ELSE /\ loc' = [l EXCEPT !.cb_args = @ \o CallbackArgs(loc.callback, msg),
                                    !.found = msg]
                /\ pc' = "get_email_content"
                /\ stack' = <<Frame("post", "message-list", "email+id")>>
                /\ ret' = Pending
                /\ UNCHANGED result
    /\ done' = NoDone
    /\ UNCHANGED <<xsrf_token, cookies, outer, okJar>>

\* get_email_content has returned into msg_callback, which returns into
\* get_new_message, which returns msg; what get_email_content raised goes through both
msg_callback_return ==
    /\ pc = "get_email_content" /\ outer = "get_new_message"
    /\ stack = <<>> /\ ret # Pending
    /\ result' = IF get_email_content_value(ret).t = "raise" THEN RaiseV ELSE DictV(loc.found)
    /\ pc' = "idle"
    /\ UNCHANGED ret
    /\ done' = NoDone
    /\ UNCHANGED <<xsrf_token, cookies, stack, outer, loc, okJar>>

Init ==
    /\ xsrf_token = None
    /\ cookies = NoCookie
    /\ stack = <<>>
    /\ pc = "start"
    /\ outer = "none"
    /\ loc = Loc0
    /\ ret = Pending
    /\ result = NoValue
    /\ done = NoDone
    /\ okJar = NeverOk

Next ==
    \/ Construct
    \/ ConstructReturn
    \/ request_ok
    \/ request_419
    \/ request_http_error
    \/ request_exception
    \/ handler_return
    \/ CallGenerateEmail
    \/ generate_email_return
    \/ CallGeneratePremiumEmail
    \/ generate_premium_email_step
    \/ CallGetMessageList
    \/ get_message_list_return
    \/ CallGetEmailContent
    \/ get_email_content_return
    \/ CallGetNewMessage
    \/ get_new_message_scan
    \/ msg_callback_return

Spec == Init /\ [][Next]_vars

-----------------------------------------------------------------------------
(* One client that only generates addresses, with deeper re-initialization *)

NextRetry ==
    \/ Construct
    \/ ConstructReturn
    \/ request_ok
    \/ request_419_deep
    \/ request_http_error
    \/ request_exception
    \/ handler_return
    \/ CallGenerateEmail
    \/ generate_email_return

SpecRetry == Init /\ [][NextRetry]_vars

-----------------------------------------------------------------------------
(* example_usage: pc is "idle" where an operation has returned into it, "loop"
   at the top of while True, "sleep" in time.sleep(5), "end" after it ended *)

\* email_address = client.generate_premium_email()
ExampleGenerate ==
    /\ pc = "idle" /\ outer = "__init__"
    /\ generate_premium_email_call(DefaultMaxAttempts, DefaultPremiumNum)

\* if email_address: while True ... else: print; an exception ends example_usage
ExampleBranch ==
    /\ pc = "idle" /\ outer = "generate_premium_email"
    /\ pc' = IF Truthy(result) THEN "loop" ELSE "end"
    /\ UNCHANGED <<xsrf_token, cookies, stack, outer, loc, ret, result, done, okJar>>

\* new_message = client.get_new_message(email_address, msg_callback)
ExamplePoll ==
    /\ pc = "loop"
    /\ get_new_message_call("msg_callback")

AfterPollUncaught(v) == IF v.t = "raise" THEN "end" ELSE "sleep"

\* where control goes when get_new_message returned or raised v:
\* except Exception prints, and time.sleep(5) follows either way
AfterPoll(v) == "sleep"

ExampleAfterPoll ==
    /\ pc = "idle" /\ outer = "get_new_message"
    /\ pc' = AfterPoll(result)
    /\ UNCHANGED <<xsrf_token, cookies, stack, outer, loc, ret, result, done, okJar>>

\* time.sleep(5) returns
ExampleSleep ==
    /\ pc = "sleep"
    /\ pc' = "loop"
    /\ UNCHANGED <<xsrf_token, cookies, stack, outer, loc, ret, result, done, okJar>>

NextExample ==
    \/ Construct
    \/ ConstructReturn
    \/ request_ok
    \/ request_419
    \/ request_http_error
    \/ request_exception
    \/ handler_return
    \/ ExampleGenerate
    \/ generate_premium_email_step
    \/ ExampleBranch
    \/ ExamplePoll
    \/ get_new_message_scan
    \/ msg_callback_return
    \/ ExampleAfterPoll
    \/ ExampleSleep

\* the interpreter goes on with example_usage's own steps; whether the
\* service answers is not assumed
SpecExample ==
    /\ Init /\ [][NextExample]_vars
    /\ WF_vars(ExampleAfterPoll) /\ WF_vars(ExampleSleep) /\ WF_vars(ExamplePoll)

-----------------------------------------------------------------------------
(* _is_premium_email on its own: a static method, applied to every address
   and num of the bounds *)

\* the arguments, before the call
ArgsV(email, num) == [NoValue EXCEPT !.t = "args", !.str = email, !.d = <<num>>]

InitPremium ==
    /\ xsrf_token = None
    /\ cookies = NoCookie
    /\ stack = <<>>
    /\ pc = "static"
    /\ outer = "none"
    /\ loc = Loc0
    /\ ret = Pending
    /\ \E email \in Addresses, num \in 0..MaxNum : result = ArgsV(email, num)
    /\ done = NoDone
    /\ okJar = NeverOk

CallIsPremiumEmail ==
    /\ pc = "static" /\ result.t = "args"
    /\ result' = [result EXCEPT !.t = "bool", !.b = is_premium_email(result.str, result.d[1])]
    /\ UNCHANGED <<xsrf_token, cookies, stack, pc, outer, loc, ret, done, okJar>>

SpecPremium == InitPremium /\ [][CallIsPremiumEmail]_vars

-----------------------------------------------------------------------------
(* Properties *)

Frames == { stack[i] : i \in 1..Len(stack) }

\* num=2, the default of _is_premium_email and the num of the examples
DefaultNum == 2
Example3 == <<"a",".","b","+","c">> \o GmailDomain
Example4 == <<"a",".","b",".","c","+","d">> \o GmailDomain

\* C1 as stated: _is_premium_email(a, n) is true iff the local part of a has
\* at most n + 1 segments; so it is true of "a.b+c@gmail.com" with n = 2
C1_LocalPartSegments ==
    result.t = "bool" =>
        /\ result.b <=> (Segments(LocalPart(result.str)) <= result.d[1] + 1)
        /\ (result.str = Example3 /\ result.d[1] = DefaultNum) => result.b
        /\ (result.str = Example4 /\ result.d[1] = DefaultNum) => ~result.b

\* C1, amended: _is_premium_email(a, n) is true iff the whole address a, domain
\* included, has at most n + 1 segments; for an address at gmail.com or
\* googlemail.com, whose domain has one dot, iff its local part has at most n
\* segments; so it is false of "a.b+c@gmail.com" and of "a.b.c+d@gmail.com"
\* with n = 2
C1_WholeAddressSegments ==
    result.t = "bool" =>
        /\ result.b <=> (Segments(result.str) <= result.d[1] + 1)
        /\ result.b <=> (Segments(LocalPart(result.str)) <= result.d[1])
        /\ (result.str \in {Example3, Example4} /\ result.d[1] = DefaultNum) => ~result.b

C1_Witness ==
    /\ result.t = "bool" /\ result.str = Example3 /\ result.d[1] = DefaultNum
    /\ ~result.b

\* C2 as stated: a call of _make_request makes at most 3 attempts; an attempt
\* after the first is made only when the attempt before it ended with status
\* 419, and _initialize_session has run in between; three 419s give no result
C2_RetryOnlyAfter419 ==
    /\ \A f \in Frames :
        /\ f.sent <= MAX_RETRIES
        /\ (f.at = "try" /\ f.sent >= 1) => (f.prev = 419 /\ f.inits >= f.sent)
    /\ done.sent <= MAX_RETRIES
    /\ done.sent >= 2 => done.prev = 419
    /\ (done.sent = MAX_RETRIES /\ done.last = 419) => done.result = NoResponse

\* C3 as stated: a call whose first attempt got 419 and whose second attempt
\* got a success returns the second attempt's response, and _initialize_session
\* has run exactly once during the call
C3_OneReauthentication ==
    (done.method = "post" /\ done.sent = 2 /\ done.prev = 419 /\ done.last = 200) =>
        /\ done.result = done.served
        /\ done.inits = 1

\* C4 as stated: an attempt that ends with an HTTP error whose status is not
\* 419 is the call's last attempt, starts no _initialize_session, and the call
\* returns no result
C4_NoRetryOnOtherError ==
    /\ \A f \in Frames : f.sent >= 1 => f.prev = 419
    /\ (done.method # "none" /\ done.last \notin {0, 200, 419}) =>
        /\ done.result = NoResponse
        /\ done.sent = 1 => done.inits = 0

\* C5 as stated: recovery from session expiry is bounded by the retry budget:
\* no more _initialize_session runs are begun during one call of _make_request
\* than the call has attempts, whatever the bootstrap GET is answered with
C5_RecoveryBounded ==
    /\ \A f \in Frames : f.inits <= MAX_RETRIES
    /\ done.inits <= MAX_RETRIES

\* C6: _make_request never raises: it returns the response of a success, or
\* no result after an HTTP error or another exception; and on no result
\* generate_email returns None, get_message_list [], get_new_message {} and
\* get_email_content {} (generate_premium_email: None)
C6_NoFailureRaised ==
    /\ ret.class \in {"pending", "ok", "none"}
    /\ done.method # "none" =>
        \/ done.last = 200 /\ done.result.class = "ok"
        \/ done.last # 200 /\ done.result = NoResponse
    /\ (pc = "idle" /\ ret.class = "none") =>
        /\ outer = "generate_email" => result = NoneV
        /\ outer = "generate_premium_email" => result = NoneV
        /\ outer = "get_message_list" => result = ListV(<<>>)
        /\ outer = "get_email_content" => result = DictV(<<>>)
        /\ (outer = "get_new_message" /\ loc.found = <<>>) => result = DictV(<<>>)
        /\ (outer = "get_new_message" /\ loc.found # <<>>) => result = DictV(loc.found)

C6_Witness ==
    /\ pc = "idle" /\ outer = "get_new_message" /\ ret = NoResponse
    /\ loc.found = <<>> /\ result = DictV(<<>>)

\* an _initialize_session run has just ended without a successful GET
InitializeFailed == done.method = "get" /\ done.result.class # "ok"

\* C7 as stated: when _initialize_session fails, nothing is raised and the
\* session is left without a token (None, or the empty text of a missing cookie)
C7_TokenAbsentAfterFailure ==
    InitializeFailed => (done.result.class # "raise" /\ xsrf_token \in {None, EmptyStr})

\* C7, amended: when _initialize_session fails, nothing is raised and the token
\* is not cleared: it is absent only if no request has succeeded since the
\* client was made, and is otherwise the decoded cookie of the most recent
\* successful response
C7_TokenKeptAfterFailure ==
    InitializeFailed =>
        /\ done.result.class # "raise"
        /\ okJar = NeverOk => xsrf_token = None
        /\ okJar # NeverOk => xsrf_token = unquote(CookieGet(okJar))

C7_Witness ==
    /\ InitializeFailed /\ done.depth = 2
    /\ xsrf_token = <<"t","=">> /\ cookies = <<"u">>

\* C8 as stated: generate_premium_email calls generate_email at most
\* max_attempts times, returns the first address that passes, returns None
\* when none did, a generate_email that gave no address (the request failed,
\* or the JSON reply has no address) does not end the loop, and with
\* max_attempts = 0 it returns None without a request
C8_PremiumLoop ==
    outer = "generate_premium_email" =>
        /\ loc.calls <= loc.max_attempts
        /\ pc = "idle" =>
            /\ (ret.class = "ok" /\ ret.body.kind = "json") => result.t \in {"str", "None"}
            /\ result.t = "str" =>
                /\ loc.passes = 1
                /\ Segments(LocalPart(result.str)) <= loc.num
                /\ ret.class = "ok" /\ result.str = ret.body.email[1]
            /\ result.t = "None" => (loc.passes = 0 /\ loc.calls = loc.max_attempts)
        /\ loc.max_attempts = 0 =>
            (pc = "idle" /\ result = NoneV /\ stack = <<>> /\ ret = Pending)

\* C9 as stated: generate_email returns the first address of a non-empty list,
\* and None, raising nothing, when the request failed or the list is empty
C9_FirstAddressOrNone ==
    (pc = "idle" /\ outer = "generate_email") =>
        /\ (ret.class = "ok" /\ ret.body.kind = "json" /\ ret.body.hasEmail
              /\ ret.body.email # <<>>) => result = StrV(ret.body.email[1])
        /\ (ret.class # "ok" \/ (ret.body.kind = "json" /\ ret.body.hasEmail
              /\ ret.body.email = <<>>)) => result = NoneV

\* C10: get_new_message returns the first entry of the list whose time is
\* "Just Now", {} when there is none; the callback is given nothing else as
\* new, and at most one entry per call
C10_FirstJustNow ==
    outer = "get_new_message" =>
        /\ Len(loc.cb_args) <= 1
        /\ \A k \in 1..Len(loc.cb_args) : \A m \in { loc.cb_args[k][j] : j \in 1..Len(loc.cb_args[k]) } :
              /\ m.time = "Just Now"
              /\ \E i \in 1..Len(loc.listed) :
                    /\ loc.listed[i] = m
                    /\ \A j \in 1..(i - 1) : loc.listed[j].time # "Just Now"
        /\ (pc = "idle" /\ result.t = "dict") =>
              IF \E i \in 1..Len(loc.listed) : loc.listed[i].time = "Just Now"
              THEN \E i \in 1..Len(loc.listed) :
                    /\ result.d = <<loc.listed[i]>>
                    /\ loc.listed[i].time = "Just Now"
                    /\ \A j \in 1..(i - 1) : loc.listed[j].time # "Just Now"
              ELSE result.d = <<>>

C10_Witness ==
    /\ pc = "idle" /\ outer = "get_new_message" /\ result.t = "dict"
    /\ Len(loc.listed) = 2
    /\ loc.listed[1].time = "5 min ago"
    /\ result.d = <<loc.listed[2]>>

\* C11: a get_new_message with a callback calls it at most once, and when it
\* returns it has called it exactly once, with the value it returns: the
\* found message, or {} when nothing is new, a failed list request included
C11_CallbackOnceWithReturned ==
    (outer = "get_new_message" /\ loc.callback # "None") =>
        /\ Len(loc.cb_args) <= 1
        /\ pc = "get_email_content" => loc.cb_args = <<loc.found>>
        /\ (pc = "idle" /\ result.t = "dict") => loc.cb_args = <<result.d>>
        /\ (pc = "idle" /\ ret.class = "none" /\ loc.found = <<>>) =>
              (result = DictV(<<>>) /\ loc.cb_args = << <<>> >>)

C11_Witness ==
    /\ pc = "idle" /\ outer = "get_new_message" /\ loc.callback = "msg_callback"
    /\ ret = NoResponse /\ done = NoDone
    /\ loc.cb_args = << <<>> >> /\ result = DictV(<<>>)

\* C12: get_message_list returns the entries of messageData whose from
\* contains "@", each once and in the server's order, and [] when the request
\* failed or the reply has no messageData
C12_FilteredList ==
    (pc = "idle" /\ outer = "get_message_list") =>
        /\ (ret.class # "ok" \/ (ret.body.kind = "json" /\ ~ret.body.hasData)) =>
              result = ListV(<<>>)
        /\ (ret.class = "ok" /\ ret.body.kind = "json" /\ ret.body.hasData) =>
              LET data == ret.body.messageData
                  kept == { i \in 1..Len(data) :
                              \E j \in 1..Len(data[i].from) : data[i].from[j] = "@" }
                  out == result.list
              IN  /\ result.t = "list"
                  /\ Len(out) = Cardinality(kept)
                  /\ \A k \in 1..Len(out) :
                        /\ out[k].messageID \in kept
                        /\ out[k] = data[out[k].messageID]
                  /\ \A k \in 1..(Len(out) - 1) : out[k].messageID < out[k + 1].messageID

C12_Witness ==
    /\ pc = "idle" /\ outer = "get_message_list" /\ ret.class = "ok"
    /\ Len(ret.body.messageData) = 2
    /\ ret.body.messageData[1].from = <<"A","D">>
    /\ result = ListV(<<ret.body.messageData[2]>>)

\* example_usage is inside its while True
InLoop == (pc = "loop" \/ outer = "get_new_message") /\ pc # "end"

\* C13: once example_usage is in its loop it stays there; whatever
\* get_new_message returned or raised (from the list, the callback or the
\* get_email_content inside it), time.sleep(5) is next and then the next
\* get_new_message, which an iteration that raised leads to
C13_LoopGoesOn ==
    /\ [][ /\ InLoop => InLoop'
           /\ (pc = "idle" /\ outer = "get_new_message") => pc' = "sleep"
           /\ pc = "sleep" => pc' = "loop"
           /\ pc = "loop" => (pc' = "get_message_list" /\ ret' = Pending) ]_vars
    /\ (pc = "idle" /\ outer = "get_new_message" /\ result.t = "raise")
           ~> (pc = "get_message_list" /\ outer = "get_new_message" /\ ret = Pending)

C13_Witness ==
    /\ pc = "sleep" /\ outer = "get_new_message" /\ result.t = "raise"
    /\ loc.cb_args # <<>>

\* the next step of the wrapper on top is an attempt
AttemptStep == stack # <<>> /\ Top.at = "try"

\* the token stored at the most recent successful response, None before any
TokenOfLastSuccess == IF okJar = NeverOk THEN None ELSE unquote(CookieGet(okJar))

\* C14: every attempt, a retry included, is sent with the token stored at
\* that moment, which is the one stored at the most recent successful
\* response (None before any)
C14_HeaderIsStoredToken ==
    [][ AttemptStep =>
          LET k == Len(stack)
              h == IF done'.method # "none" THEN done'.hdr ELSE stack'[k].hdr
          IN  h = xsrf_token /\ h = TokenOfLastSuccess ]_vars

C14_Witness ==
    /\ done.method = "post" /\ done.sent = 2 /\ done.last = 200
    /\ done.hdr = <<"t","=">> /\ xsrf_token = <<"u">>

\* C15 as stated: a successful response sets the token to the decoded
\* XSRF-TOKEN cookie that response carries, and to "" when it carries none
C15_TokenFromResponse ==
    [][ (AttemptStep /\ done'.method # "none" /\ done'.last = 200) =>
          xsrf_token' = unquote(IF done'.served.set_cookie # NoSetCookie
                                THEN done'.served.set_cookie ELSE EmptyStr) ]_vars

\* C15, amended: a successful response sets the token to the decoded
\* XSRF-TOKEN cookie of the session's jar after that response: the one the
\* response carries, else the one an earlier response (an error included)
\* left in the jar, and "" only when the jar has none
C15_TokenFromJar ==
    [][ (AttemptStep /\ done'.method # "none" /\ done'.last = 200) =>
          xsrf_token' = unquote(IF done'.served.set_cookie # NoSetCookie
                                THEN done'.served.set_cookie ELSE CookieGet(cookies)) ]_vars

C15_Witness ==
    /\ done.last = 200 /\ done.served.set_cookie = NoSetCookie
    /\ xsrf_token = <<"t","=">> /\ cookies = <<"t","%","3","D">>

\* C16 as stated: the attempt after a 419 is sent with the token the
\* _initialize_session in between obtained when its GET call succeeded, and
\* with the token of the failed attempt, unchanged, when it failed; and after
\* a 419 that is not the last attempt the retry is made either way
C16_RetryToken ==
    [][ /\ (AttemptStep /\ Top.sent >= 1 /\ Top.prev = 419) =>
              LET k == Len(stack)
                  h == IF done'.method # "none" THEN done'.hdr ELSE stack'[k].hdr
              IN  /\ Top.reinit = "ok" => h = TokenOfLastSuccess
                  /\ Top.reinit = "failed" => h = Top.hdr
        /\ (stack # <<>> /\ Top.at = "handler" /\ Top.prev = 419
              /\ Top.retry_count + 1 < MAX_RETRIES) =>
              (Len(stack') = Len(stack) /\ stack'[Len(stack)].at = "try") ]_vars

\* C17 as stated: get_email_content raises nothing and returns a record when
\* the page lacks the subject-header element or one of its three labels
C17_ParseFailsSilently ==
    (/\ pc = "idle" /\ outer = "get_email_content" /\ ret.class = "ok"
     /\ (~ret.body.html.header \/ Len(ret.body.html.labels) < 3)) =>
        result.t = "dict"

C19_TokenChangesOnlyOnSuccess ==
    [][ xsrf_token' # xsrf_token =>
          (AttemptStep /\ done'.method # "none" /\ done'.last = 200
             /\ done'.result.class = "ok") ]_vars

C19_Witness ==
    /\ done.method = "post" /\ done.last = 0 /\ done.result = NoResponse
    /\ done.hdr = <<"t","=">> /\ xsrf_token = <<"t","=">> /\ cookies = <<"u">>

\* C20 as stated: a wrapper starts an _initialize_session after an attempt
\* exactly when that attempt ended with status 419, so it starts as many as
\* it had such attempts; also after the third, after which it returns None
C20_ReinitPerTimeout ==
    /\ [][ AttemptStep =>
             LET k == Len(stack)
                 status == IF done'.method # "none" THEN done'.last ELSE stack'[k].prev
                 started == Len(stack') >= k /\ stack'[k].at = "handler"
             IN  started <=> (status = 419) ]_vars
    /\ []((done.sent = MAX_RETRIES /\ done.last = 419) =>
             (done.result = NoResponse /\ done.inits >= MAX_RETRIES))

====
